---- MODULE Spec2Model ----
(***************************************************************************)
(* peewee-generics: GenericModel.update_instance, the GenericComponent     *)
(* CRUD methods and the pagination metadata of add_metadata, over the      *)
(* TodoModel / TodoSchema / TodoComponent of examples/todo_app.py.         *)
(*                                                                         *)
(* The table is a SQLite table with an integer primary key `id` and a      *)
(* NOT NULL column `text`.  An update map (a Python dict) is a sequence of *)
(* entries in insertion order with pairwise distinct keys.                 *)
(***************************************************************************)
EXTENDS Integers, Sequences, FiniteSets

\* ------------------------------------------------------------------ bounds
MaxId == 2          \* record operations: ids of persisted rows are 1..MaxId
MaxRows == 3        \* list requests: the table holds ids within 1..MaxRows
MaxKeys == 2        \* an update map has at most this many keys
MaxOffset == 3      \* largest page number requested
MaxLimit == 2       \* largest page size requested

\* ------------------------------------------------------------ Python values
None == -9          \* Python's None where an integer is expected
limit_max == -1     \* SqliteDatabase.limit_max: LIMIT -1 is "no limit"
Absent == -8        \* the key is not in the context dict
NoneStr == "<None>" \* Python's None where a string is expected
OK == "ok"

Texts == {"a", "b"}

\* ------------------------------------------------------------------ schema
\* class attributes of the model that are peewee fields
ModelFields == {"id", "text"}
\* names getattr(cls, name) finds: the fields and the plain attribute of
\* the TestModel of tests/test_model.py
ClassAttrs == ModelFields \cup {"invalid"}
\* declared fields of TodoSchema, inherited ones first
SchemaFields == <<"id", "text">>

Entry(k, n, s) == [key |-> k, ival |-> n, sval |-> s]

\* a record in memory: a model instance
Inst(i, t) == [id |-> i, text |-> t]

has_attr(key) == key \in ClassAttrs

\* is_field as hasattr(): any class attribute passes
is_field_any_attr(key) == key \in ClassAttrs

is_field(key) == key \in ModelFields

\* setattr(self, key, val) for a field
set_attr(rec, e) ==
    IF e.key = "id" THEN [rec EXCEPT !.id = e.ival]
                    ELSE [rec EXCEPT !.text = e.sval]

\* ------------------------------------------------------------- persistence
RowIds(st) == DOMAIN st

MaxOf(S) == IF S = {} THEN 0 ELSE CHOOSE m \in S : \A x \in S : x <= m

\* save as an upsert: an UPDATE that matches no row inserts the row
save_upsert(rec, st) ==
    IF rec.text = NoneStr
    THEN [rec |-> rec, store |-> st, err |-> "DatabaseError", sql |-> "none"]
    ELSE LET new == IF rec.id # None THEN rec.id
                    ELSE MaxOf(RowIds(st)) + 1 IN
         [rec |-> [rec EXCEPT !.id = new],
          store |-> [i \in RowIds(st) \cup {new} |->
                        IF i = new THEN [text |-> rec.text] ELSE st[i]],
          err |-> OK,
          sql |-> IF new \in RowIds(st) THEN "UPDATE" ELSE "INSERT"]

\* Model.save(): UPDATE ... WHERE id = pk when the instance has a primary
\* key, INSERT (SQLite assigns max(rowid)+1) when it has none.
save(rec, st) ==
    IF rec.text = NoneStr
    THEN [rec |-> rec, store |-> st, err |-> "DatabaseError", sql |-> "none"]
    ELSE IF rec.id # None
    THEN [rec |-> rec,
          store |-> IF rec.id \in RowIds(st)
                    THEN [st EXCEPT ![rec.id] = [text |-> rec.text]]
                    ELSE st,
          err |-> OK, sql |-> "UPDATE"]
    ELSE LET new == MaxOf(RowIds(st)) + 1 IN
         [rec |-> [rec EXCEPT !.id = new],
          store |-> [i \in RowIds(st) \cup {new} |->
                        IF i = new THEN [text |-> rec.text] ELSE st[i]],
          err |-> OK, sql |-> "INSERT"]

\* Model.delete_instance(): DELETE ... WHERE id = pk
delete_instance(rec, st) == [i \in RowIds(st) \ {rec.id} |-> st[i]]

\* the for loop of update_instance: check a key, assign it, next key
RECURSIVE apply_keys(_, _)
apply_keys(rec, data) ==
    IF data = <<>> THEN [rec |-> rec, err |-> OK]
    ELSE LET e == Head(data) IN
         IF ~has_attr(e.key) THEN [rec |-> rec, err |-> "AttributeError"]
         ELSE IF ~is_field(e.key) THEN [rec |-> rec, err |-> "AttributeError"]
         ELSE apply_keys(set_attr(rec, e), Tail(data))

\* update_instance with self.save() in a finally clause
update_instance_finally(rec, data, st) ==
    LET after(a, s) ==
            [rec |-> s.rec, store |-> s.store,
             err |-> IF a.err # OK THEN a.err ELSE s.err,
             sql |-> s.sql, saved |-> TRUE]
        after_loop(a) == after(a, save(a.rec, st))
    IN  after_loop(apply_keys(rec, data))

\* GenericModel.update_instance(data)
update_instance(rec, data, st) ==
    LET after_save(s) ==
            [rec |-> s.rec, store |-> s.store, err |-> s.err,
             sql |-> s.sql, saved |-> TRUE]
        after_loop(a) ==
            IF a.err # OK
            THEN [rec |-> a.rec, store |-> st, err |-> a.err,
                  sql |-> "none", saved |-> FALSE]
            ELSE after_save(save(a.rec, st))
    IN  after_loop(apply_keys(rec, data))

\* ------------------------------------------------------------------ inputs
IdVals == {None} \cup (1 .. MaxId)
TextVals == Texts

\* the entries of the dicts handed to update_instance: fields with a value
\* of their type, a class attribute that is no field, an unknown name
Entries ==
    {Entry("id", n, "") : n \in IdVals}
    \cup {Entry("text", 0, t) : t \in TextVals}
    \cup {Entry("invalid", 0, "test"), Entry("bogus", 0, "x")}

DistinctKeys(d) == \A i, j \in 1 .. Len(d) : d[i].key = d[j].key => i = j

\* the dicts passed as `data`: insertion-ordered, keys pairwise distinct
UpdateMaps ==
    {d \in UNION {[1 .. n -> Entries] : n \in 0 .. MaxKeys} : DistinctKeys(d)}

\* the JSON objects of a request body: an id (0 is below the schema's
\* minimum), a text ("" is below the schema's minimum length), and a key
\* the schema does not declare, each present or not
OptEntry(S) == {<<>>} \cup {<<e>> : e \in S}

RequestMaps ==
    {i \o t \o x :
        i \in OptEntry({Entry("id", n, "") : n \in IdVals \cup {0}}),
        t \in OptEntry({Entry("text", 0, v) : v \in TextVals \cup {""}}),
        x \in OptEntry({Entry("bogus", 0, "x")})}

Keys(d) == {d[i].key : i \in 1 .. Len(d)}
Lookup(d, k) == d[CHOOSE i \in 1 .. Len(d) : d[i].key = k]

\* ------------------------------------------------------------------ schema
\* a field's deserialisation and validators (marshmallow 2, strict):
\* id is Integer(allow_none=True, Range(min=1)); text is
\* String(allow_none=False, Length(min=1))
field_valid(e) ==
    IF e.key = "id" THEN e.ival = None \/ e.ival >= 1
    ELSE e.sval # NoneStr /\ e.sval # ""

\* Schema.load(data).data: the declared fields present in data, in the
\* order of declaration; keys the schema does not declare are dropped
load(data) ==
    LET validated(out) ==
            [data |-> out,
             err |-> IF \A i \in 1 .. Len(out) : field_valid(out[i])
                     THEN OK ELSE "ValidationError"]
        loaded(present) ==
            validated([i \in 1 .. Len(present) |-> Lookup(data, present[i])])
    IN  loaded(SelectSeq(SchemaFields, LAMBDA k : k \in Keys(data)))

\* Schema.dump(item, many=False).data
dump(rec) == [id |-> rec.id, text |-> rec.text]

\* klass.Meta.model(**serialized_data)
RECURSIVE construct(_, _)
construct(rec, data) ==
    IF data = <<>> THEN rec
    ELSE construct(set_attr(rec, Head(data)), Tail(data))

\* GenericSchema.make_instance(data)
make_instance(data) ==
    LET made(l) ==
            [rec |-> IF l.err = OK
                     THEN construct(Inst(None, NoneStr), l.data)
                     ELSE Inst(None, NoneStr),
             err |-> l.err]
    IN  made(load(data))

\* GenericComponent.get_by_id(item_id)
get_by_id(item_id, st) ==
    IF item_id \in RowIds(st)
    THEN [rec |-> Inst(item_id, st[item_id].text), err |-> OK]
    ELSE [rec |-> Inst(None, NoneStr), err |-> "DoesNotExist"]

\* -------------------------------------------------------------- pagination
Min(a, b) == IF a <= b THEN a ELSE b
Max(a, b) == IF a >= b THEN a ELSE b

\* the rows a SELECT without ORDER BY yields: SQLite scans by rowid
RECURSIVE rows_of(_, _)
rows_of(st, S) ==
    IF S = {} THEN <<>>
    ELSE LET m == CHOOSE x \in S : \A y \in S : x <= y IN
         <<Inst(m, st[m].text)>> \o rows_of(st, S \ {m})

\* GenericModel.base_query(): cls.select()
base_query(st) == rows_of(st, RowIds(st))

NoPage == [limit |-> None, offset |-> None]

\* paginate with the page number taken as zero-based
paginate_zero_based(page, paginate_by) ==
    [limit |-> paginate_by, offset |-> page * paginate_by]

\* ModelSelect.paginate(page, paginate_by)
paginate(page, paginate_by) ==
    [limit |-> paginate_by,
     offset |-> (IF page > 0 THEN page - 1 ELSE page) * paginate_by]

\* fetch with LIMIT 0 rendered as LIMIT 0
fetch_literal_limit(rows, q) ==
    LET lim == IF q.limit = None THEN limit_max ELSE q.limit
        off == IF q.offset = None \/ q.offset < 0 THEN 0 ELSE q.offset
        last == IF lim < 0 THEN Len(rows) ELSE Min(off + lim, Len(rows))
    IN  SubSeq(rows, off + 1, last)

\* the rows of a query with its LIMIT / OFFSET: peewee renders
\* LIMIT (_limit or limit_max); SQLite reads a negative LIMIT as no limit
\* and a negative OFFSET as 0
fetch(rows, q) ==
    LET lim == IF q.limit = None \/ q.limit = 0 THEN limit_max ELSE q.limit
        off == IF q.offset = None \/ q.offset < 0 THEN 0 ELSE q.offset
        last == IF lim < 0 THEN Len(rows) ELSE Min(off + lim, Len(rows))
    IN  SubSeq(rows, off + 1, last)

\* query.count(): SELECT COUNT(1) FROM (query)
count(rows, q) == Len(fetch(rows, q))

\* context.get(key, default)
ctx_get(v, default) == IF v = Absent THEN default ELSE v

\* remaining without the clamp at 0
remaining_unclamped(total, limit, offset, page_count) ==
    total - (limit * (offset - 1)) - page_count

\* remaining = max(total - (limit * (offset - 1)) - query.count(), 0)
remaining_of(total, limit, offset, page_count) ==
    Max(total - (limit * (offset - 1)) - page_count, 0)

\* 'next': context.get('next') if remaining > 0 else None
next_of(ctx, remaining) == IF remaining > 0 THEN ctx.next ELSE NoneStr

\* previous given from the first page on
previous_of_from_first(ctx, offset) ==
    IF offset > 0 THEN ctx.previous ELSE NoneStr

\* 'previous': context.get('previous') if offset > 1 else None
previous_of(ctx, offset) == IF offset > 1 THEN ctx.previous ELSE NoneStr

Meta(c, r, o, l, n, p) ==
    [count |-> c, remaining |-> r, offset |-> o, limit |-> l,
     next |-> n, previous |-> p]

NoMeta == Meta(0, 0, 0, 0, NoneStr, NoneStr)

\* GenericComponent.add_metadata(query, context)
add_metadata(rows, ctx) ==
    LET offset == ctx_get(ctx.offset, 1)
        limit == ctx_get(ctx.limit, 0)
        total == count(rows, NoPage)
        paged == rows # <<>> /\ offset # 0
        result(q, remaining) ==
            [err |-> OK, query |-> q,
             metadata |-> Meta(total, remaining, offset, limit,
                               next_of(ctx, remaining),
                               previous_of(ctx, offset))]
        narrowed(q) ==
            result(q, remaining_of(total, limit, offset, count(rows, q)))
    IN  IF ~paged THEN result(NoPage, 0)
        ELSE IF limit = None
        THEN [err |-> "TypeError", query |-> NoPage, metadata |-> NoMeta]
        ELSE narrowed(paginate(offset, limit))

Ctx(w, o, l, n, p) ==
    [wrapper |-> w, offset |-> o, limit |-> l, next |-> n, previous |-> p,
     hasMeta |-> FALSE, metadata |-> NoMeta]

\* DEFAULT_DICT: the context of TodoComponent()
DefaultCtx == Ctx(FALSE, Absent, Absent, NoneStr, NoneStr)

\* an operation's outcome: the error raised (or OK), whether save() was
\* called and the statement it issued, and the value returned
Ret(op, err, saved, sql, many, wrapped, meta, data) ==
    [op |-> op, err |-> err, saved |-> saved, sql |-> sql, many |-> many,
     wrapped |-> wrapped, meta |-> meta, data |-> data]

Raised(op, err) == Ret(op, err, FALSE, "none", FALSE, FALSE, NoMeta, <<>>)

\* the outcome together with the item_id the operation was called with
Called(r, item_id) ==
    [op |-> r.op, err |-> r.err, saved |-> r.saved, sql |-> r.sql,
     many |-> r.many, wrapped |-> r.wrapped, meta |-> r.meta,
     data |-> r.data, item_id |-> item_id]

\* GenericSchema.wrap_data(data) under a schema built with context ctx
wrap_data(op, saved, sql, many, ctx, data) ==
    IF ctx.hasMeta
    THEN Ret(op, OK, saved, sql, many, TRUE, ctx.metadata, data)
    ELSE Ret(op, OK, saved, sql, many, FALSE, NoMeta, data)

dump_many(rows) == [i \in 1 .. Len(rows) |-> dump(rows[i])]

\* ------------------------------------------------------------------- state
\* store:   the todomodel table, row id -> row
\* held:    the model instance a caller holds (from get_by_id)
\* context: the component's self.context
\* ret:     the last operation: its item_id and what it returned or raised
\* calls:   the update_item calls in progress, one per request
\* last:    the call whose save() ran last (0: none yet)
\* links:   the request a context was generated for and the URLs made for it
VARIABLES store, held, context, ret, calls, last, links

vars == <<store, held, context, ret, calls, last, links>>

\* what the operations of one component on one request leave alone
requests == <<calls, last, links>>

NoInst == [live |-> FALSE, rec |-> Inst(None, NoneStr)]

\* the requests served at the same time
Procs == {1, 2}

\* an update_item call: where it stands, its arguments, the loaded data,
\* its `item` and the error it ended with
Call(pc, item_id, data, rec, err) ==
    [pc |-> pc, item_id |-> item_id, data |-> data, rec |-> rec, err |-> err]

NoCall == Call("idle", None, <<>>, Inst(None, NoneStr), OK)
NoCalls == [p \in Procs |-> NoCall]

\* url_for(route_name, **kwargs): the route and its query arguments
url_for(route_name, kwargs) ==
    [route |-> route_name, offset |-> kwargs.offset, limit |-> kwargs.limit]

NoUrl == url_for("none", [offset |-> Absent, limit |-> Absent])
NoUrls == [live |-> FALSE, request |-> NoUrl, next |-> NoUrl,
           previous |-> NoUrl]

Init ==
    /\ store = <<>>
    /\ held = NoInst
    /\ context = DefaultCtx
    /\ ret = Called(Raised("init", OK), None)
    /\ calls = NoCalls
    /\ last = 0
    /\ links = NoUrls

\* rows are only ever inserted with ids up to MaxId
InBound(st) == RowIds(st) \subseteq 1 .. MaxId

\* TodoComponent(context=...): __init__ stores the context
NewComponent(w, o, l, urls) ==
    /\ context' = Ctx(w, o, l, IF urls THEN "next_url" ELSE NoneStr,
                      IF urls THEN "previous_url" ELSE NoneStr)
    /\ ret' = Called(Raised("__init__", OK), None)
    /\ links' = NoUrls
    /\ UNCHANGED <<store, held, calls, last>>

\* GenericComponent.get_items(): the returned value and the context after
get_items(ctx, st) ==
    LET listed(items) ==
            LET wrapped(m) ==
                    IF m.err # OK
                    THEN [context |-> ctx, ret |-> Raised("get_items", m.err)]
                    ELSE LET with(c) ==
                                 [context |-> c,
                                  ret |-> wrap_data("get_items", FALSE,
                                            "none", TRUE, c,
                                            dump_many(fetch(items, m.query)))]
                         IN  with([ctx EXCEPT !.hasMeta = TRUE,
                                              !.metadata = m.metadata])
            IN  IF ctx.wrapper
                THEN wrapped(add_metadata(items, ctx))
                ELSE [context |-> ctx,
                      ret |-> wrap_data("get_items", FALSE, "none", TRUE,
                                        DefaultCtx,
                                        dump_many(fetch(items, NoPage)))]
    IN  listed(base_query(st))

GetItems ==
    \E r \in {get_items(context, store)} :
        /\ context' = r.context
        /\ ret' = Called(r.ret, None)
        /\ UNCHANGED <<store, held, requests>>

\* GenericComponent.context_urls(route_name, **kwargs)
context_urls(route_name, kwargs) ==
    [next |-> url_for(route_name, kwargs),
     previous |-> url_for(route_name, kwargs)]

\* GenericView.generate_context() for a request with the query arguments
\* args: the context's 'next' and 'previous' stand for the two URLs made
\* by context_urls, kept in `links`
generate_context(route_name, args) ==
    [context |-> Ctx(TRUE, ctx_get(args.offset, 0), ctx_get(args.limit, None),
                     "next_url", "previous_url"),
     urls |-> [live |-> TRUE,
               request |-> url_for(route_name, args),
               next |-> context_urls(route_name, args).next,
               previous |-> context_urls(route_name, args).previous]]

\* ApiReadManyMixin.read_many() for a request with the query arguments
\* args: the context generated, the component built on it, its get_items
read_many(args, st) ==
    LET listed(g) == [urls |-> g.urls, items |-> get_items(g.context, st)]
    IN  listed(generate_context("read_many", args))

\* GET /?offset=o&limit=l
ReadMany(o, l) ==
    \E r \in {read_many([offset |-> o, limit |-> l], store)} :
        /\ context' = r.items.context
        /\ links' = r.urls
        /\ ret' = Called(r.items.ret, None)
        /\ UNCHANGED <<store, held, calls, last>>

\* GenericComponent.get_item(item_id)
get_item(item_id, st) ==
    LET got(g) ==
            IF g.err # OK THEN Raised("get_item", g.err)
            ELSE wrap_data("get_item", FALSE, "none", FALSE, DefaultCtx,
                           <<dump(g.rec)>>)
    IN  got(get_by_id(item_id, st))

GetItem(item_id) ==
    /\ ret' = Called(get_item(item_id, store), item_id)
    /\ UNCHANGED <<store, held, context, requests>>

\* GenericComponent.create_item(data)
create_item(data, st) ==
    LET saved(s) ==
            [store |-> s.store,
             ret |-> IF s.err # OK
                     THEN Ret("create_item", s.err, TRUE, s.sql, FALSE,
                              FALSE, NoMeta, <<>>)
                     ELSE wrap_data("create_item", TRUE, s.sql, FALSE,
                                    DefaultCtx, <<dump(s.rec)>>)]
        made(mi) ==
            IF mi.err # OK
            THEN [store |-> st, ret |-> Raised("create_item", mi.err)]
            ELSE saved(save(mi.rec, st))
    IN  made(make_instance(data))

CreateItem(data) ==
    \E r \in {create_item(data, store)} :
        /\ InBound(r.store)
        /\ store' = r.store
        /\ ret' = Called(r.ret, None)
        /\ UNCHANGED <<held, context, requests>>

\* update_item fetching the record before it loads the data
update_item_fetch_first(item_id, data, st) ==
    LET updated(u) ==
            [store |-> u.store,
             ret |-> IF u.err # OK
                     THEN Ret("update_item", u.err, u.saved, u.sql, FALSE,
                              FALSE, NoMeta, <<>>)
                     ELSE wrap_data("update_item", u.saved, u.sql, FALSE,
                                    DefaultCtx, <<dump(u.rec)>>)]
        loaded(g, l) ==
            IF l.err # OK
            THEN [store |-> st, ret |-> Raised("update_item", l.err)]
            ELSE updated(update_instance(g.rec, l.data, st))
        got(g) ==
            IF g.err # OK
            THEN [store |-> st, ret |-> Raised("update_item", g.err)]
            ELSE loaded(g, load(data))
    IN  got(get_by_id(item_id, st))

\* GenericComponent.update_item(item_id, data)
update_item(item_id, data, st) ==
    LET updated(u) ==
            [store |-> u.store,
             ret |-> IF u.err # OK
                     THEN Ret("update_item", u.err, u.saved, u.sql, FALSE,
                              FALSE, NoMeta, <<>>)
                     ELSE wrap_data("update_item", u.saved, u.sql, FALSE,
                                    DefaultCtx, <<dump(u.rec)>>)]
        got(l, g) ==
            IF g.err # OK
            THEN [store |-> st, ret |-> Raised("update_item", g.err)]
            ELSE updated(update_instance(g.rec, l.data, st))
        loaded(l) ==
            IF l.err # OK
            THEN [store |-> st, ret |-> Raised("update_item", l.err)]
            ELSE got(l, get_by_id(item_id, st))
    IN  loaded(load(data))

UpdateItem(item_id, data) ==
    \E r \in {update_item(item_id, data, store)} :
        /\ InBound(r.store)
        /\ store' = r.store
        /\ ret' = Called(r.ret, item_id)
        /\ UNCHANGED <<held, context, requests>>

\* GenericComponent.delete_item(item_id)
delete_item(item_id, ctx, st) ==
    LET saved(s) ==
            [store |-> s.store,
             ret |-> wrap_data("delete_item", TRUE, s.sql, FALSE, ctx,
                               <<dump(s.rec)>>)]
        got(g) ==
            IF g.err # OK
            THEN [store |-> st, ret |-> Raised("delete_item", g.err)]
            ELSE saved(save(g.rec, delete_instance(g.rec, st)))
    IN  got(get_by_id(item_id, st))

DeleteItem(item_id) ==
    \E r \in {delete_item(item_id, context, store)} :
        /\ store' = r.store
        /\ ret' = Called(r.ret, item_id)
        /\ UNCHANGED <<held, context, requests>>

\* GenericComponent.get_by_id(item_id), the caller keeping the instance
GetById(item_id) ==
    \E g \in {get_by_id(item_id, store)} :
        /\ held' = IF g.err = OK THEN [live |-> TRUE, rec |-> g.rec]
                   ELSE held
        /\ ret' = Called(IF g.err = OK
                         THEN Ret("get_by_id", OK, FALSE, "none", FALSE,
                                  FALSE, NoMeta, <<dump(g.rec)>>)
                         ELSE Raised("get_by_id", g.err),
                         item_id)
        /\ UNCHANGED <<store, context, requests>>

\* GenericModel.update_instance(data) on the held instance
UpdateInstance(data) ==
    /\ held.live
    /\ \E u \in {update_instance(held.rec, data, store)} :
        /\ InBound(u.store)
        /\ held' = [held EXCEPT !.rec = u.rec]
        /\ store' = u.store
        /\ ret' = Called(Ret("update_instance", u.err, u.saved, u.sql,
                             FALSE, FALSE, NoMeta,
                             IF u.err = OK THEN <<dump(u.rec)>> ELSE <<>>),
                         None)
        /\ UNCHANGED <<context, requests>>

ItemIds == 1 .. MaxId

\* the records' operations: one component with the default context
Next ==
    \/ \E data \in RequestMaps : CreateItem(data)
    \/ \E i \in ItemIds : GetItem(i)
    \/ \E i \in ItemIds : GetById(i)
    \/ \E data \in UpdateMaps : UpdateInstance(data)
    \/ \E i \in ItemIds : \E data \in RequestMaps : UpdateItem(i, data)
    \/ \E i \in ItemIds : DeleteItem(i)

Spec == Init /\ [][Next]_vars

OffsetInputs == (-1 .. MaxOffset) \cup {Absent}
LimitInputs == (-1 .. MaxLimit) \cup {Absent, None}

\* every table with ids within 1..MaxRows; a list request does not look
\* at a row's text, so every row has the same
Tables ==
    UNION {[S -> {[text |-> "a"]}] : S \in SUBSET (1 .. MaxRows)}

InitPage ==
    /\ store \in Tables
    /\ held = NoInst
    /\ context = DefaultCtx
    /\ ret = Called(Raised("init", OK), None)
    /\ calls = NoCalls
    /\ last = 0
    /\ links = NoUrls

\* the values of ?offset= and ?limit= in a query string, or none
OffsetArgs == (-1 .. MaxOffset) \cup {Absent}
LimitArgs == (-1 .. MaxLimit) \cup {Absent}

\* list requests: components built with a context and asked for the items
\* of a table as it is found, rows being deleted in between
NextPage ==
    \/ NewComponent(FALSE, Absent, Absent, FALSE)
    \/ \E o \in OffsetInputs : \E l \in LimitInputs : \E urls \in BOOLEAN :
          NewComponent(TRUE, o, l, urls)
    \/ GetItems
    \/ \E o \in OffsetArgs : \E l \in LimitArgs : ReadMany(o, l)
    \/ \E i \in 1 .. MaxRows : DeleteItem(i)

SpecPage == InitPage /\ [][NextPage]_vars

\* ---- two update_item calls served at once, each in its own request
\* with its own component, schema and fetched instance; the table shared

\* every table with ids within 1..MaxId
StartTables ==
    UNION {[S -> {[text |-> t] : t \in Texts}] : S \in SUBSET (1 .. MaxId)}

\* request bodies of declared fields
FieldMaps == {d \in RequestMaps : Keys(d) \subseteq ModelFields}

InitUpdates ==
    /\ store \in StartTables
    /\ held = NoInst
    /\ context = DefaultCtx
    /\ ret = Called(Raised("init", OK), None)
    /\ calls = NoCalls
    /\ last = 0
    /\ links = NoUrls

Ended(c) == c.pc \in {"returned", "raised"}

\* a call ends: what update_item returns or raises
EndCall(p, c) ==
    /\ calls' = [calls EXCEPT ![p] = c]
    /\ ret' = Called(IF c.err = OK
                     THEN wrap_data("update_item", TRUE, "UPDATE", FALSE,
                                    DefaultCtx, <<dump(c.rec)>>)
                     ELSE Raised("update_item", c.err),
                     c.item_id)

\* update_item(item_id, data) is called, for the id the other call is
\* for: schema = self.schema(); serialized_data = schema.load(data).data
BeginUpdate(p, item_id, data) ==
    /\ calls[p].pc = "idle"
    /\ \A q \in Procs \ {p} :
          calls[q].pc = "idle" \/ calls[q].item_id = item_id
    /\ \E l \in {load(data)} :
          IF l.err # OK
          THEN EndCall(p, Call("raised", item_id, <<>>,
                               Inst(None, NoneStr), l.err))
          ELSE /\ calls' = [calls EXCEPT ![p] =
                              Call("loaded", item_id, l.data,
                                   Inst(None, NoneStr), OK)]
               /\ UNCHANGED ret
    /\ UNCHANGED <<store, held, context, last, links>>

\* item = self.get_by_id(item_id)
FetchItem(p) ==
    /\ calls[p].pc = "loaded"
    /\ \E g \in {get_by_id(calls[p].item_id, store)} :
          IF g.err # OK
          THEN EndCall(p, [calls[p] EXCEPT !.pc = "raised", !.err = g.err])
          ELSE /\ calls' = [calls EXCEPT ![p].pc = "fetched",
                                         ![p].rec = g.rec]
               /\ UNCHANGED ret
    /\ UNCHANGED <<store, held, context, last, links>>

\* update_instance: the loop assigns the fields in memory
AssignFields(p) ==
    /\ calls[p].pc = "fetched"
    /\ \E a \in {apply_keys(calls[p].rec, calls[p].data)} :
          IF a.err # OK
          THEN EndCall(p, [calls[p] EXCEPT !.pc = "raised", !.err = a.err,
                                          !.rec = a.rec])
          ELSE /\ calls' = [calls EXCEPT ![p].pc = "assigned",
                                         ![p].rec = a.rec]
               /\ UNCHANGED ret
    /\ UNCHANGED <<store, held, context, last, links>>

\* update_instance: self.save(); update_item returns the dumped item
SaveItem(p) ==
    /\ calls[p].pc = "assigned"
    /\ \E s \in {save(calls[p].rec, store)} :
          /\ store' = s.store
          /\ EndCall(p, [calls[p] EXCEPT
                            !.pc = IF s.err = OK THEN "returned" ELSE "raised",
                            !.err = s.err, !.rec = s.rec])
    /\ last' = p
    /\ UNCHANGED <<held, context, links>>

StepCall(p) == FetchItem(p) \/ AssignFields(p) \/ SaveItem(p)

NextUpdates ==
    \/ \E p \in Procs : \E i \in ItemIds : \E data \in FieldMaps :
          BeginUpdate(p, i, data)
    \/ \E p \in Procs : FetchItem(p)
    \/ \E p \in Procs : AssignFields(p)
    \/ \E p \in Procs : SaveItem(p)

SpecUpdates == InitUpdates /\ [][NextUpdates]_vars

\* ================================================================== claims

\* ---- record operations, under Spec

\* C1 (as claimed): a rejected update_instance leaves every field of the
\* in-memory record as it was before the call.
C1_AllOrNothing ==
    [][(ret'.op = "update_instance" /\ ret'.err = "AttributeError")
          => held' = held]_vars

Supplied(data, rec, f) ==
    IF f = "id" THEN rec.id = Lookup(data, "id").ival
                ELSE rec.text = Lookup(data, "text").sval

Kept(before, after, f) ==
    IF f = "id" THEN after.id = before.id ELSE after.text = before.text

\* C3 (as claimed): after a successful update_instance(data) every field
\* named in data has the supplied value, every other field its prior value,
\* and the record has the same field names; {} changes nothing.
C3_NonDestructive ==
    held.live =>
        \A data \in UpdateMaps :
            \E u \in {update_instance(held.rec, data, store)} :
                u.err = OK =>
                    /\ DOMAIN u.rec = DOMAIN held.rec
                    /\ \A f \in ModelFields :
                          IF f \in Keys(data) THEN Supplied(data, u.rec, f)
                          ELSE Kept(held.rec, u.rec, f)

\* C4: update_instance raises AttributeError exactly for the update maps
\* with a key that is not a declared field of the model, be the name
\* missing from the class or a class attribute that is no field.
C4_UnknownField ==
    held.live =>
        \A data \in UpdateMaps :
            (update_instance(held.rec, data, store).err = "AttributeError")
                <=> (\E k \in Keys(data) : k \notin ModelFields)

\* an update_instance was rejected
C4_Witness ==
    /\ ret.op = "update_instance"
    /\ ret.err = "AttributeError"

\* C5: an update_item or update_instance that ends in an unknown-field or
\* validation error has not called save(), and leaves every persisted row
\* as it was.
C5_FailedUpdateNotPersisted ==
    [][(/\ ret'.op \in {"update_item", "update_instance"}
        /\ ret'.err \in {"AttributeError", "ValidationError"})
          => (store' = store /\ ~ret'.saved /\ ret'.sql = "none")]_vars

\* a rejected update_instance had assigned a field in memory: the row of
\* the same id still has the old value
C5_Witness ==
    /\ ret.op = "update_instance"
    /\ ret.err = "AttributeError"
    /\ held.rec.id \in RowIds(store)
    /\ held.rec.text # store[held.rec.id].text

\* C10: delete_item(id) removes the row with that id and no other row; a
\* row that is absent stays absent until an INSERT creates a record; and
\* get_item / get_by_id of an absent id raise DoesNotExist.
C10_DeletionPermanent ==
    [][/\ (ret'.op = "delete_item" /\ ret'.err = OK)
            => /\ ret'.item_id \notin RowIds(store')
               /\ RowIds(store') = RowIds(store) \ {ret'.item_id}
               /\ \A j \in RowIds(store') : store'[j] = store[j]
       /\ \A i \in ItemIds :
            (i \notin RowIds(store) /\ i \in RowIds(store'))
                => ret'.sql = "INSERT"
       /\ (ret'.op \in {"get_item", "get_by_id"}
             /\ ret'.item_id \notin RowIds(store'))
            => ret'.err = "DoesNotExist"]_vars

\* delete_item has returned, its save() issued, another row remaining
C10_Witness ==
    /\ ret.op = "delete_item"
    /\ ret.err = OK
    /\ ret.sql = "UPDATE"
    /\ ret.item_id \notin RowIds(store)
    /\ store # <<>>

\* C11 (as claimed): an update_item(item_id, data) that succeeds returns
\* the record with id item_id, and changes no row but the one with id
\* item_id.
C11_UpdatePreservesIdentity ==
    [][(ret'.op = "update_item" /\ ret'.err = OK)
          => /\ ret'.data[1].id = ret'.item_id
             /\ RowIds(store') = RowIds(store)
             /\ \A j \in RowIds(store) \ {ret'.item_id} :
                   store'[j] = store[j]]_vars

\* C13: create_item and update_item load the input first: for every input
\* the schema rejects they raise ValidationError whatever the store holds
\* (update_item even when no record has the id) and return the store as
\* it was; and a step that ends in ValidationError has not called save()
\* and leaves every row as it was.
C13_ValidationPrecedes ==
    /\ [](\A data \in RequestMaps :
            load(data).err # OK
                => /\ create_item(data, store) =
                        [store |-> store,
                         ret |-> Raised("create_item", "ValidationError")]
                   /\ \A i \in ItemIds :
                        update_item(i, data, store) =
                            [store |-> store,
                             ret |-> Raised("update_item",
                                            "ValidationError")])
    /\ [][ret'.err = "ValidationError"
            => /\ ret'.op \in {"create_item", "update_item"}
               /\ store' = store
               /\ ~ret'.saved]_vars

\* update_item was given invalid data and the id of no record, other
\* records existing: the error is the validation error
C13_Witness ==
    /\ ret.op = "update_item"
    /\ ret.err = "ValidationError"
    /\ ret.item_id \notin RowIds(store)
    /\ store # <<>>

\* ---- list requests, under SpecPage

\* the offset and limit add_metadata reads from the context
PageOffset == ctx_get(context.offset, 1)
PageLimit == ctx_get(context.limit, 0)
Total == Cardinality(RowIds(store))

\* the last operation was a get_items that returned an envelope
Listed == ret.op = "get_items" /\ ret.err = OK /\ ret.wrapped

\* C2: for limit > 0 and offset >= 1, remaining is
\* max(total_count - limit*(offset-1) - len(items), 0), so never negative.
C2_Remaining ==
    (Listed /\ PageLimit > 0 /\ PageOffset >= 1)
        => /\ ret.meta.remaining =
                Max(Total - PageLimit * (PageOffset - 1) - Len(ret.data), 0)
           /\ ret.meta.remaining >= 0

\* a middle page: items before it, on it and after it
C2_Witness ==
    /\ Listed /\ PageLimit > 0 /\ PageOffset > 1
    /\ Len(ret.data) > 0
    /\ ret.meta.remaining > 0

\* C6: with next and previous markers in the context, previous is non-null
\* exactly when offset > 1 and next is non-null exactly when remaining > 0.
C6_NextPrevious ==
    (Listed /\ context.next # NoneStr /\ context.previous # NoneStr)
        => /\ (ret.meta.previous # NoneStr) <=> (PageOffset > 1)
           /\ (ret.meta.next # NoneStr) <=> (ret.meta.remaining > 0)

\* both markers given
C6_Witness ==
    /\ Listed
    /\ ret.meta.next = "next_url"
    /\ ret.meta.previous = "previous_url"

\* C7: limit 0, the default, is unlimited: for every offset >= 1 the
\* request returns every row in base-query order, count is the total,
\* remaining is 0 and next is null.
C7_LimitZeroUnlimited ==
    (ret.op = "get_items" /\ context.wrapper /\ PageLimit = 0
        /\ PageOffset >= 1)
        => /\ ret.err = OK
           /\ ret.data = dump_many(base_query(store))
           /\ ret.meta.count = Total
           /\ ret.meta.remaining = 0
           /\ ret.meta.next = NoneStr

\* no limit given, a page beyond the first asked for, markers supplied
C7_Witness ==
    /\ Listed
    /\ context.limit = Absent
    /\ PageOffset > 1
    /\ context.next # NoneStr
    /\ Len(ret.data) = MaxRows

\* C8: for limit > 0 and offset >= 1 the items are the rows at positions
\* limit*(offset-1)+1 .. min(limit*offset, total) of the base query, in
\* order; count is the total; offset and limit are echoed; an offset beyond
\* the last page gives no items.
C8_PageItems ==
    (Listed /\ PageLimit > 0 /\ PageOffset >= 1)
        => /\ ret.data = SubSeq(dump_many(base_query(store)),
                                PageLimit * (PageOffset - 1) + 1,
                                Min(PageLimit * PageOffset, Total))
           /\ ret.meta.count = Total
           /\ ret.meta.offset = PageOffset
           /\ ret.meta.limit = PageLimit
           /\ (PageLimit * (PageOffset - 1) >= Total => ret.data = <<>>)

\* the second page of size 1 of a table whose second row is not id 2
C8_Witness ==
    /\ Listed /\ PageLimit = 1 /\ PageOffset = 2
    /\ Len(ret.data) = 1
    /\ ret.data[1].id = 3
    /\ ret.meta.count = 2

\* C9 (as claimed): a list request with offset < 1 or limit < 0 fails with
\* InvalidPageRequest and returns neither items nor metadata.
C9_InvalidPageRequest ==
    (ret.op = "get_items" /\ context.wrapper
        /\ (PageOffset < 1 \/ (PageLimit # None /\ PageLimit < 0)))
        => /\ ret.err = "InvalidPageRequest"
           /\ ret.data = <<>>
           /\ ~ret.wrapped

\* C15 (as claimed): the URLs made for a list request at page offset with
\* limit L address page offset+1 and page offset-1 of the same route with
\* the same limit, so they differ from each other and from the request.
C15_PaginationLinks ==
    (links.live /\ Listed)
        => /\ links.next = url_for(links.request.route,
                                  [offset |-> PageOffset + 1,
                                   limit |-> links.request.limit])
           /\ links.previous = url_for(links.request.route,
                                      [offset |-> PageOffset - 1,
                                       limit |-> links.request.limit])
           /\ links.next # links.previous
           /\ links.next # links.request
           /\ links.previous # links.request

\* C12 (as claimed): a list request on a table without rows returns no
\* items, count 0, remaining 0 and null next and previous, whatever the
\* offset and limit.
C12_EmptyList ==
    (ret.op = "get_items" /\ context.wrapper /\ Total = 0)
        => /\ ret.err = OK
           /\ ret.data = <<>>
           /\ ret.meta.count = 0
           /\ ret.meta.remaining = 0
           /\ ret.meta.next = NoneStr
           /\ ret.meta.previous = NoneStr

\* C16 (as claimed): get_item, create_item, update_item and delete_item
\* return the serialized record, never the envelope of an earlier list
\* call on the same component.
C16_NoEnvelopeOnSingleItem ==
    (ret.op \in {"get_item", "create_item", "update_item", "delete_item"}
        /\ ret.err = OK)
        => ~ret.wrapped

\* ---- two update_item calls for one id, under SpecUpdates

\* C14 (as claimed): a call under way can always take its next step; a
\* call raises only what it would raise alone (its own ValidationError, or
\* DoesNotExist for an id without a record); and once both calls have
\* ended, the persisted record of the id is the in-memory record of the
\* call that saved last.
C14_LastWriteWins ==
    /\ \A p \in Procs :
          /\ calls[p].pc \in {"loaded", "fetched", "assigned"}
                => ENABLED StepCall(p)
          /\ calls[p].err \in {OK, "ValidationError", "DoesNotExist"}
          /\ calls[p].err = "DoesNotExist"
                => calls[p].item_id \notin RowIds(store)
    /\ ((\A p \in Procs : Ended(calls[p])) /\ last # 0)
          => /\ calls[last].item_id \in RowIds(store)
             /\ calls[last].rec =
                    Inst(calls[last].item_id,
                         store[calls[last].item_id].text)

====
